---- MODULE Spec2Model ----
(***************************************************************************)
(* Model of the model comparison tool: the registry (config.py), the       *)
(* command-line flow (main.py) and the dispatcher, the provider adapters   *)
(* and the token counter (utils.py).                                       *)
(*                                                                         *)
(* Representation.  A Python str is a sequence of one-character strings,   *)
(* so that lower(), startswith(), slicing, strip(), split() and the `in`   *)
(* substring test are computed as Python computes them.  An error message  *)
(* is a sequence of atoms: the literal words of the message, followed or   *)
(* interleaved with the atoms of the values formatted into it.  A Python   *)
(* dict is a record whose DOMAIN is the set of keys present.  A number is  *)
(* a record [type, tenths] (value = tenths / 10), so that the float        *)
(* len(words) * 1.3 is exact.                                              *)
(***************************************************************************)
EXTENDS Integers, Sequences, FiniteSets, TLC

VARIABLES
    pc,         \* "ready": no call in progress; "returned": a call has ended
    op,         \* the function that was called
    query,      \* its query / text argument
    model_info, \* its descriptor argument (model_type/provider for main)
    api_config, \* its credentials argument
    transport,  \* what the SDKs, the HTTP endpoint, the tokenizer and the clock answer
    result,     \* the value returned (NoResult when nothing was returned)
    raised,     \* the exception that left the function, "none" if it returned
    sent,       \* the SDK requests and HTTP requests made during the call
    trace,      \* the functions of utils.py entered during the call, in order
    cli,        \* main's options (model_type, provider); NoCli for the other functions
    display     \* what display_summary showed: "none", "response" or "error"

vars == <<pc, op, query, model_info, api_config, transport, result, raised,
          sent, trace, cli, display>>

----------------------------------------------------------------------------
(* Bounds of the model.                                                    *)

MaxQueryLen == 1
MaxTextLen == 2
MaxTokens == 1

----------------------------------------------------------------------------
(* Python str operations.                                                  *)

Chars == {"a", " "}

RECURSIVE TextsUpTo(_)
TextsUpTo(n) ==
    IF n = 0 THEN {<<>>}
    ELSE LET shorter == TextsUpTo(n - 1)
         IN shorter \cup {Append(t, c) : t \in {s \in shorter : Len(s) = n - 1}, c \in Chars}

Queries == TextsUpTo(MaxQueryLen)
Texts == TextsUpTo(MaxTextLen)

\* s.startswith(p)
StartsWith(s, p) == Len(p) <= Len(s) /\ SubSeq(s, 1, Len(p)) = p

\* p in s, for two str
Contains(s, p) == \E i \in 0..(Len(s) - Len(p)) : SubSeq(s, i + 1, i + Len(p)) = p

\* s[n:]
DropPrefix(s, n) == SubSeq(s, n + 1, Len(s))

IsSpace(c) == c = " "

\* s.strip()
Strip(s) ==
    LET keep == {i \in 1..Len(s) : ~IsSpace(s[i])}
    IN IF keep = {} THEN <<>>
       ELSE LET lo == CHOOSE i \in keep : \A j \in keep : i <= j
                hi == CHOOSE i \in keep : \A j \in keep : j <= i
            IN SubSeq(s, lo, hi)

\* len(s.split())
WordCount(s) ==
    Cardinality({i \in 1..Len(s) : ~IsSpace(s[i]) /\ (i = 1 \/ IsSpace(s[i - 1]))})

UpperToLower ==
    ("A" :> "a") @@ ("B" :> "b") @@ ("C" :> "c") @@ ("D" :> "d") @@ ("E" :> "e") @@
    ("F" :> "f") @@ ("G" :> "g") @@ ("H" :> "h") @@ ("I" :> "i") @@ ("J" :> "j") @@
    ("K" :> "k") @@ ("L" :> "l") @@ ("M" :> "m") @@ ("N" :> "n") @@ ("O" :> "o") @@
    ("P" :> "p") @@ ("Q" :> "q") @@ ("R" :> "r") @@ ("S" :> "s") @@ ("T" :> "t") @@
    ("U" :> "u") @@ ("V" :> "v") @@ ("W" :> "w") @@ ("X" :> "x") @@ ("Y" :> "y") @@
    ("Z" :> "z")

\* s.lower()
Lower(s) == [i \in 1..Len(s) |-> IF s[i] \in DOMAIN UpperToLower THEN UpperToLower[s[i]] ELSE s[i]]

----------------------------------------------------------------------------
(* String literals of the source.                                          *)

S_openai == <<"o", "p", "e", "n", "a", "i">>
S_anthropic == <<"a", "n", "t", "h", "r", "o", "p", "i", "c">>
S_hugging_face == <<"h", "u", "g", "g", "i", "n", "g", " ", "f", "a", "c", "e">>
S_instruct == <<"i", "n", "s", "t", "r", "u", "c", "t">>
S_DialoGPT == <<"D", "i", "a", "l", "o", "G", "P", "T">>
S_generated_text == <<"g", "e", "n", "e", "r", "a", "t", "e", "d", "_", "t", "e", "x", "t">>
S_text == <<"t", "e", "x", "t">>

P_OpenAI == <<"O", "p", "e", "n", "A", "I">>
P_Anthropic == <<"A", "n", "t", "h", "r", "o", "p", "i", "c">>
P_HuggingFace == <<"H", "u", "g", "g", "i", "n", "g", " ", "F", "a", "c", "e">>

N_gpt35_instruct == <<"g", "p", "t", "-", "3", ".", "5", "-", "t", "u", "r", "b", "o", "-", "i", "n", "s", "t", "r", "u", "c", "t">>
N_distilgpt2 == <<"d", "i", "s", "t", "i", "l", "g", "p", "t", "2">>
N_gpt35 == <<"g", "p", "t", "-", "3", ".", "5", "-", "t", "u", "r", "b", "o">>
N_claude_haiku == <<"c", "l", "a", "u", "d", "e", "-", "3", "-", "h", "a", "i", "k", "u", "-", "2", "0", "2", "4", "0", "3", "0", "7">>
N_dialogpt_small == <<"m", "i", "c", "r", "o", "s", "o", "f", "t", "/", "D", "i", "a", "l", "o", "G", "P", "T", "-", "s", "m", "a", "l", "l">>
N_ft_gpt35 == <<"f", "t", ":", "g", "p", "t", "-", "3", ".", "5", "-", "t", "u", "r", "b", "o">>
N_dialogpt_medium == <<"m", "i", "c", "r", "o", "s", "o", "f", "t", "/", "D", "i", "a", "l", "o", "G", "P", "T", "-", "m", "e", "d", "i", "u", "m">>

----------------------------------------------------------------------------
(* config.py                                                               *)

\* The "characteristics" of a descriptor are free text that only
\* display_summary prints; they are left out of the descriptor.
Descriptor(name, type, provider, context_window) ==
    [name |-> name, type |-> type, provider |-> provider, context_window |-> context_window]

MODELS ==
    [base |->
        [openai |-> Descriptor(N_gpt35_instruct, "base", P_OpenAI, 4096),
         huggingface |-> Descriptor(N_distilgpt2, "base", P_HuggingFace, 1024)],
     instruct |->
        [openai |-> Descriptor(N_gpt35, "instruct", P_OpenAI, 16385),
         anthropic |-> Descriptor(N_claude_haiku, "instruct", P_Anthropic, 200000),
         huggingface |-> Descriptor(N_dialogpt_small, "instruct", P_HuggingFace, 1024)],
     fine_tuned |->
        [openai |-> Descriptor(N_ft_gpt35, "fine_tuned", P_OpenAI, 16385),
         huggingface |-> Descriptor(N_dialogpt_medium, "fine_tuned", P_HuggingFace, 1024)]]

DEFAULT_MAX_TOKENS == 1000

DEFAULT_CONFIG == [max_tokens |-> DEFAULT_MAX_TOKENS, temperature |-> "0.7"]

\* os.getenv(NAME): None when the variable is unset, else its value (which
\* may be the empty string).
EnvUnset == [isNone |-> TRUE, s |-> <<>>]
EnvEmpty == [isNone |-> FALSE, s |-> <<>>]
EnvValue(p) == [isNone |-> FALSE, s |-> <<"key-of", p>>]

ProviderKeys == {"openai", "anthropic", "huggingface"}

\* The process environment: one value per API-key variable.
Envs == [ProviderKeys -> {"unset", "empty", "set"}]

Getenv(env, p) ==
    IF env[p] = "unset" THEN EnvUnset
    ELSE IF env[p] = "empty" THEN EnvEmpty
    ELSE EnvValue(p)

API_CONFIG(env) ==
    [openai |-> [api_key |-> Getenv(env, "openai"), base_url |-> "https://api.openai.com/v1"],
     anthropic |-> [api_key |-> Getenv(env, "anthropic")],
     huggingface |-> [api_key |-> Getenv(env, "huggingface"),
                      base_url |-> "https://api-inference.huggingface.co/models"]]

\* Python truthiness of an API key: None and "" are falsy.
Truthy(k) == ~k.isNone /\ Len(k.s) > 0

----------------------------------------------------------------------------
(* Values returned by the functions of utils.py.                           *)

PyInt(n) == [type |-> "int", tenths |-> 10 * n]
PyFloat(tenths) == [type |-> "float", tenths |-> tenths]

\* {"error": msg}
ErrorOnly(msg) == [error |-> msg]
\* {"error": msg, "success": False}
ErrorResult(msg) == [error |-> msg, success |-> FALSE]
\* {"response": ..., "tokens_used": ..., "response_time": ..., "success": True}
SuccessResult(text, tokens, elapsed) ==
    [response |-> text, tokens_used |-> tokens, response_time |-> elapsed, success |-> TRUE]

NoResult == [none |-> TRUE]

\* How a call ends: it returns ret, or the exception `raised` leaves it;
\* sent are the requests it made and trace the functions it entered.
Returns(ret, reqs, tr) == [ret |-> ret, raised |-> "none", sent |-> reqs, trace |-> tr]
Raises(exc, reqs, tr) == [ret |-> NoResult, raised |-> exc, sent |-> reqs, trace |-> tr]

Min(a, b) == IF a <= b THEN a ELSE b

----------------------------------------------------------------------------
(* What the world outside the program answers.                             *)

\* str(e) of the exceptions (subclasses of Exception) an SDK or the HTTP
\* client raises; str(e) may be empty, as for TimeoutError().
ExcStrs == {<<>>, <<"Connection", "error.">>}

TokenCounts == 0..MaxTokens

\* time.time() differences
Elapsed == {0, 1}

\* tiktoken: encoding_for_model raises for a model it does not know (or the
\* encoding cannot be loaded), else len(encoding.encode(text)) = n.
TokenizerOutcomes ==
    {[kind |-> "raise", n |-> 0]} \cup {[kind |-> "ok", n |-> n] : n \in TokenCounts}

\* The openai SDK: the import or the client construction fails ("import"),
\* the request raises ("raise"), the response has no choices ("empty"), or
\* it has a first choice with this text and usage.total_tokens.
OpenAIOutcomesOf(T, N, E) ==
    {[kind |-> k, msg |-> m, text |-> <<>>, total |-> 0, elapsed |-> 0] :
        k \in {"import", "raise"}, m \in ExcStrs}
    \cup {[kind |-> "empty", msg |-> <<>>, text |-> <<>>, total |-> 0, elapsed |-> 0]}
    \cup {[kind |-> "ok", msg |-> <<>>, text |-> t, total |-> n, elapsed |-> e] :
            t \in T, n \in N, e \in E}

OpenAIOutcomes == OpenAIOutcomesOf(Texts, TokenCounts, Elapsed)

\* The anthropic SDK, likewise, with usage.input_tokens and output_tokens.
AnthropicOutcomesOf(T, N, E) ==
    {[kind |-> k, msg |-> m, text |-> <<>>, input_tokens |-> 0, output_tokens |-> 0, elapsed |-> 0] :
        k \in {"import", "raise"}, m \in ExcStrs}
    \cup {[kind |-> "empty", msg |-> <<>>, text |-> <<>>, input_tokens |-> 0, output_tokens |-> 0,
           elapsed |-> 0]}
    \cup {[kind |-> "ok", msg |-> <<>>, text |-> t, input_tokens |-> i, output_tokens |-> o,
           elapsed |-> e] :
            t \in T, i \in N, o \in N, e \in E}

AnthropicOutcomes == AnthropicOutcomesOf(Texts, TokenCounts, Elapsed)

----------------------------------------------------------------------------
(* utils.py: count_tokens                                                  *)

count_tokens(text, model_name, tok) ==
    IF tok.kind = "ok"
    THEN PyInt(tok.n)
    ELSE PyFloat(WordCount(text) * 13)

----------------------------------------------------------------------------
(* utils.py: _call_openai_api                                              *)

MsgOpenAIKey ==
    <<"OpenAI", "API", "key", "not", "found.", "Please", "set", "OPENAI_API_KEY",
      "in", "your", ".env", "file.">>

MsgIndexError == <<"list", "index", "out", "of", "range">>

\* Mutant: no except clause, an exception of the SDK leaves the adapter.
_call_openai_api_uncaught(q, mi, ac, dc, net) ==
    LET tr == <<"_call_openai_api">>
        o == net.openai
        api == IF mi.type = "base" /\ Contains(mi.name, S_instruct)
               THEN "completions" ELSE "chat"
        req == [to |-> "openai", api |-> api, model |-> mi.name, input |-> q,
                max_tokens |-> dc.max_tokens, temperature |-> dc.temperature]
    IN IF ~Truthy(ac.api_key) THEN Returns(ErrorOnly(MsgOpenAIKey), <<>>, tr)
       ELSE IF o.kind = "import" THEN Raises("ImportError", <<>>, tr)
       ELSE IF o.kind = "raise" THEN Raises("Exception", <<req>>, tr)
       ELSE IF o.kind = "empty" THEN Raises("IndexError", <<req>>, tr)
       ELSE Returns(SuccessResult(IF api = "completions" THEN Strip(o.text) ELSE o.text,
                                  PyInt(o.total), o.elapsed), <<req>>, tr)

_call_openai_api(q, mi, ac, dc, net) ==
    LET tr == <<"_call_openai_api">>
        o == net.openai
        api == IF mi.type = "base" /\ Contains(mi.name, S_instruct)
               THEN "completions" ELSE "chat"
        req == [to |-> "openai", api |-> api, model |-> mi.name, input |-> q,
                max_tokens |-> dc.max_tokens, temperature |-> dc.temperature]
    IN IF ~Truthy(ac.api_key) THEN Returns(ErrorOnly(MsgOpenAIKey), <<>>, tr)
       ELSE IF o.kind = "import" THEN Returns(ErrorResult(o.msg), <<>>, tr)
       ELSE IF o.kind = "raise" THEN Returns(ErrorResult(o.msg), <<req>>, tr)
       ELSE IF o.kind = "empty" THEN Returns(ErrorResult(MsgIndexError), <<req>>, tr)
       ELSE Returns(SuccessResult(IF api = "completions" THEN Strip(o.text) ELSE o.text,
                                  PyInt(o.total), o.elapsed), <<req>>, tr)

----------------------------------------------------------------------------
(* utils.py: _call_anthropic_api                                           *)

MsgAnthropicKey ==
    <<"Anthropic", "API", "key", "not", "found.", "Please", "set", "ANTHROPIC_API_KEY",
      "in", "your", ".env", "file.">>

\* Mutant: no check of the API key before the SDK is used.
_call_anthropic_api_nokeycheck(q, mi, ac, dc, net) ==
    LET tr == <<"_call_anthropic_api">>
        o == net.anthropic
        req == [to |-> "anthropic", api |-> "messages", model |-> mi.name, input |-> q,
                max_tokens |-> dc.max_tokens, temperature |-> dc.temperature]
    IN IF o.kind = "import" THEN Returns(ErrorResult(o.msg), <<>>, tr)
       ELSE IF o.kind = "raise" THEN Returns(ErrorResult(o.msg), <<req>>, tr)
       ELSE IF o.kind = "empty" THEN Returns(ErrorResult(MsgIndexError), <<req>>, tr)
       ELSE Returns(SuccessResult(o.text, PyInt(o.input_tokens + o.output_tokens), o.elapsed),
                    <<req>>, tr)

_call_anthropic_api(q, mi, ac, dc, net) ==
    LET tr == <<"_call_anthropic_api">>
        o == net.anthropic
        req == [to |-> "anthropic", api |-> "messages", model |-> mi.name, input |-> q,
                max_tokens |-> dc.max_tokens, temperature |-> dc.temperature]
    IN IF ~Truthy(ac.api_key) THEN Returns(ErrorOnly(MsgAnthropicKey), <<>>, tr)
       ELSE IF o.kind = "import" THEN Returns(ErrorResult(o.msg), <<>>, tr)
       ELSE IF o.kind = "raise" THEN Returns(ErrorResult(o.msg), <<req>>, tr)
       ELSE IF o.kind = "empty" THEN Returns(ErrorResult(MsgIndexError), <<req>>, tr)
       ELSE Returns(SuccessResult(o.text, PyInt(o.input_tokens + o.output_tokens), o.elapsed),
                    <<req>>, tr)

----------------------------------------------------------------------------
(* JSON values, as response.json() returns them.                           *)

\* t: "dict", "list", "str", "int", "null", or "invalid" for a body that is
\* no JSON (response.json() raises).  A dict is the sequence d of its
\* <<key, value>> pairs, a list the sequence of its items, a str its text s,
\* an int its decimal digits s.
J(t, s, d, items) == [t |-> t, s |-> s, d |-> d, items |-> items]
JStr(s) == J("str", s, <<>>, <<>>)
JInt == J("int", <<"5">>, <<>>, <<>>)
JNull == J("null", <<>>, <<>>, <<>>)
JDict(d) == J("dict", <<>>, d, <<>>)
JList(items) == J("list", <<>>, <<>>, items)
JInvalid == J("invalid", <<>>, <<>>, <<>>)

S_label == <<"l", "a", "b", "e", "l">>

\* Values stored under a key: strings and a non-string.
JValues(T) == {JStr(t) : t \in T} \cup {JInt}

JObjects(T) ==
    {JDict(<<>>), JDict(<< <<S_label, JStr(<<"a">>)>> >>)}
    \cup {JDict(<< <<S_generated_text, v>> >>) : v \in JValues(T)}
    \cup {JDict(<< <<S_text, v>> >>) : v \in JValues(T)}
    \cup {JDict(<< <<S_generated_text, v>>, <<S_text, JStr(<<"a">>)>> >>) : v \in JValues(T)}

JElements(T) ==
    JObjects(T) \cup {JInt, JNull, JList(<<>>), JStr(<<"a">>), JStr(S_text)}

JBodiesOf(T) ==
    {JInvalid, JList(<<>>), JInt, JNull, JStr(<<>>), JStr(<<"a">>)}
    \cup {JList(<<e>>) : e \in JElements(T)}
    \cup JObjects(T)

JBodies == JBodiesOf(Texts)

\* k in v raises TypeError when v is not a container
InRaises(v) == v.t \in {"int", "null"}

\* k in v, for a str k
In(k, v) ==
    IF v.t = "dict" THEN \E i \in 1..Len(v.d) : v.d[i][1] = k
    ELSE IF v.t = "str" THEN Contains(v.s, k)
    ELSE \E i \in 1..Len(v.items) : v.items[i] = JStr(k)

\* v[k], for a str k, raises TypeError unless v is a dict
GetRaises(v) == v.t # "dict"

\* v[k], for a dict v that has the key k
Get(v, k) == LET i == CHOOSE i \in 1..Len(v.d) : v.d[i][1] = k IN v.d[i][2]

RECURSIVE JoinComma(_)
JoinComma(texts) ==
    IF Len(texts) = 0 THEN <<>>
    ELSE IF Len(texts) = 1 THEN texts[1]
    ELSE texts[1] \o <<",", " ">> \o JoinComma(Tail(texts))

\* repr() of a value that holds no container
ReprScalar(v) ==
    IF v.t = "str" THEN <<"'">> \o v.s \o <<"'">>
    ELSE IF v.t = "null" THEN <<"N", "o", "n", "e">>
    ELSE v.s

\* repr() of a dict of scalars
ReprDict(v) ==
    <<"{">>
    \o JoinComma([i \in 1..Len(v.d) |->
           <<"'">> \o v.d[i][1] \o <<"'", ":", " ">> \o ReprScalar(v.d[i][2])])
    \o <<"}">>

\* repr() of a list item: a dict of scalars, a list without items, a scalar
ReprItem(v) ==
    IF v.t = "dict" THEN ReprDict(v)
    ELSE IF v.t = "list" THEN <<"[", "]">>
    ELSE ReprScalar(v)

\* str(v)
PyStr(v) ==
    IF v.t = "str" THEN v.s
    ELSE IF v.t = "list"
         THEN <<"[">> \o JoinComma([i \in 1..Len(v.items) |-> ReprItem(v.items[i])]) \o <<"]">>
    ELSE ReprItem(v)

----------------------------------------------------------------------------
(* utils.py: _call_huggingface_hosted_api                                  *)

\* requests.post: the request times out ("timeout"), raises another
\* exception ("raise"), or is answered with a status, a body (read by
\* response.json() on 200) and a text (response.text, read otherwise).
HTTPOutcome(kind, msg, status, body, text, elapsed) ==
    [kind |-> kind, msg |-> msg, status |-> status, body |-> body, text |-> text,
     elapsed |-> elapsed]

HTTPStatuses == {200, 503, 404, 500}

HTTPOutcomesOf(B, E) ==
    {HTTPOutcome("timeout", <<>>, 0, JInvalid, <<>>, 0)}
    \cup {HTTPOutcome("raise", m, 0, JInvalid, <<>>, 0) : m \in ExcStrs}
    \cup {HTTPOutcome("http", <<>>, st, JInvalid, t, 0) :
            st \in HTTPStatuses \ {200}, t \in {<<>>, <<"Not", "Found">>}}
    \cup {HTTPOutcome("http", <<>>, 200, b, <<>>, e) : b \in B, e \in E}

HTTPOutcomes == HTTPOutcomesOf(JBodies, Elapsed)

MsgLoading ==
    <<"Model", "is", "loading.", "Please", "wait", "a", "moment", "and", "try", "again.">>

MsgTimeout ==
    <<"Request", "timed", "out.", "The", "model", "might", "be", "loading.">>

MsgCallError == <<"API", "call", "error:">>

MsgCallFailed(status, text) == <<"API", "call", "failed:", ToString(status), "-">> \o text

\* str(e) of the exceptions the response handling itself raises
MsgJSONDecode == <<"Expecting", "value:", "line", "1", "column", "1", "(char", "0)">>
MsgTypeError == <<"TypeError">>
MsgAttributeError == <<"object", "has", "no", "attribute", "'startswith'">>

Extracted(text) == [raises |-> FALSE, msg |-> <<>>, text |-> text]
ExtractFails(msg) == [raises |-> TRUE, msg |-> msg, text |-> <<>>]

\* response_text = v; if response_text.startswith(query):
\*     response_text = response_text[len(query):].strip()
StripQuery(v, q) ==
    IF v.t # "str" THEN ExtractFails(MsgAttributeError)
    ELSE IF StartsWith(v.s, q) THEN Extracted(Strip(DropPrefix(v.s, Len(q))))
    ELSE Extracted(v.s)

\* response_text = v, which query + response_text then requires to be a str
Unstripped(v) ==
    IF v.t # "str" THEN ExtractFails(MsgTypeError) ELSE Extracted(v.s)

\* "Handle different response formats": the text taken from the parsed body
ExtractText(res, q) ==
    IF res.t = "list" /\ Len(res.items) > 0
    THEN LET first == res.items[1]
         IN IF InRaises(first) THEN ExtractFails(MsgTypeError)
            ELSE IF In(S_generated_text, first)
                 THEN IF GetRaises(first) THEN ExtractFails(MsgTypeError)
                      ELSE StripQuery(Get(first, S_generated_text), q)
            ELSE IF In(S_text, first)
                 THEN IF GetRaises(first) THEN ExtractFails(MsgTypeError)
                      ELSE Unstripped(Get(first, S_text))
            ELSE Extracted(PyStr(first))
    ELSE IF res.t = "dict"
    THEN IF In(S_generated_text, res)
         THEN StripQuery(Get(res, S_generated_text), q)
         ELSE Extracted(PyStr(res))
    ELSE Extracted(PyStr(res))

HostedRequest(q, mi, ac, dc) ==
    IF Contains(mi.name, S_DialoGPT)
    THEN [to |-> "huggingface", url |-> <<ac.base_url, mi.name>>, inputs |-> [text |-> q],
          max_length |-> Min(dc.max_tokens, 100), temperature |-> dc.temperature]
    ELSE [to |-> "huggingface", url |-> <<ac.base_url, mi.name>>, inputs |-> q,
          max_new_tokens |-> Min(dc.max_tokens, 100), temperature |-> dc.temperature]

_call_huggingface_hosted_api(q, mi, ac, dc, net) ==
    LET tr == <<"_call_huggingface_hosted_api">>
        o == net.hf
    IN IF "base_url" \notin DOMAIN ac THEN Raises("KeyError", <<>>, tr)
       ELSE LET reqs == <<HostedRequest(q, mi, ac, dc)>>
            IN IF o.kind = "timeout" THEN Returns(ErrorResult(MsgTimeout), reqs, tr)
               ELSE IF o.kind = "raise"
                    THEN Returns(ErrorResult(MsgCallError \o o.msg), reqs, tr)
               ELSE IF o.status = 200
                    THEN IF o.body.t = "invalid"
                         THEN Returns(ErrorResult(MsgCallError \o MsgJSONDecode), reqs, tr)
                         ELSE LET x == ExtractText(o.body, q)
                              IN IF x.raises
                                 THEN Returns(ErrorResult(MsgCallError \o x.msg), reqs, tr)
                                 ELSE Returns(SuccessResult(x.text,
                                                  count_tokens(q \o x.text, mi.name, net.tok),
                                                  o.elapsed), reqs, tr)
               ELSE IF o.status = 503 THEN Returns(ErrorResult(MsgLoading), reqs, tr)
               ELSE Returns(ErrorResult(MsgCallFailed(o.status, o.text)), reqs, tr)

----------------------------------------------------------------------------
(* utils.py: _call_huggingface_api                                         *)

MsgHFUnavailable ==
    <<"HuggingFace", "API", "unavailable.", "This", "might", "be", "due", "to:",
      "1.", "Model", "not", "available", "on", "Inference", "API",
      "2.", "Rate", "limiting", "3.", "API", "permissions",
      "Suggestion:", "Try", "again", "later", "or", "use", "OpenAI/Anthropic", "models.">>

MsgHFNoKey ==
    <<"No", "HuggingFace", "API", "key", "provided.", "Local", "model", "execution",
      "requires", "significant", "computational", "resources.">>

\* str(KeyError("base_url")) is the repr of the key
MsgHFIntegration(exc) ==
    <<"HuggingFace", "integration", "error:">>
    \o (IF exc = "KeyError" THEN <<"'base_url'">> ELSE <<exc>>)

\* d.get("success"), as a truth value
GetSuccess(d) == "success" \in DOMAIN d /\ d.success

\* api_config.get("api_key"), as a truth value
GetApiKey(ac) == "api_key" \in DOMAIN ac /\ Truthy(ac.api_key)

\* Mutant: the result of the hosted call is returned as it is.
_call_huggingface_api_passthrough(q, mi, ac, dc, net) ==
    LET tr == <<"_call_huggingface_api">>
    IN IF GetApiKey(ac)
       THEN LET r == _call_huggingface_hosted_api(q, mi, ac, dc, net)
            IN IF r.raised # "none"
               THEN Returns(ErrorResult(MsgHFIntegration(r.raised)), r.sent, tr \o r.trace)
               ELSE Returns(r.ret, r.sent, tr \o r.trace)
       ELSE Returns(ErrorResult(MsgHFNoKey), <<>>, tr)

_call_huggingface_api(q, mi, ac, dc, net) ==
    LET tr == <<"_call_huggingface_api">>
    IN IF GetApiKey(ac)
       THEN LET r == _call_huggingface_hosted_api(q, mi, ac, dc, net)
            IN IF r.raised # "none"
               THEN Returns(ErrorResult(MsgHFIntegration(r.raised)), r.sent, tr \o r.trace)
               ELSE IF ~GetSuccess(r.ret)
                    THEN Returns(ErrorResult(MsgHFUnavailable), r.sent, tr \o r.trace)
                    ELSE Returns(r.ret, r.sent, tr \o r.trace)
       ELSE Returns(ErrorResult(MsgHFNoKey), <<>>, tr)

----------------------------------------------------------------------------
(* utils.py: generate_response                                             *)

MsgNotSupported(provider) == <<"Provider">> \o provider \o <<"not", "supported">>

Entered(name, r) == [r EXCEPT !.trace = <<name>> \o @]

\* Mutant: a provider that matches none of the three falls through to the
\* last adapter.
generate_response_fallthrough(q, mi, ac, dc, net) ==
    LET provider == Lower(mi.provider)
    IN Entered("generate_response",
        IF provider = S_openai THEN _call_openai_api(q, mi, ac, dc, net)
        ELSE IF provider = S_anthropic THEN _call_anthropic_api(q, mi, ac, dc, net)
        ELSE _call_huggingface_api(q, mi, ac, dc, net))

\* Mutant: the Hugging Face branch compares with the registry key
\* "huggingface" instead of the lower-cased display name "hugging face".
generate_response_registry_key(q, mi, ac, dc, net) ==
    LET provider == Lower(mi.provider)
    IN Entered("generate_response",
        IF provider = S_openai THEN _call_openai_api(q, mi, ac, dc, net)
        ELSE IF provider = S_anthropic THEN _call_anthropic_api(q, mi, ac, dc, net)
        ELSE IF provider = SelectSeq(S_hugging_face, LAMBDA c : c # " ")
             THEN _call_huggingface_api(q, mi, ac, dc, net)
        ELSE Returns(ErrorOnly(MsgNotSupported(provider)), <<>>, <<>>))

generate_response(q, mi, ac, dc, net) ==
    LET provider == Lower(mi.provider)
    IN Entered("generate_response",
        IF provider = S_openai THEN _call_openai_api(q, mi, ac, dc, net)
        ELSE IF provider = S_anthropic THEN _call_anthropic_api(q, mi, ac, dc, net)
        ELSE IF provider = S_hugging_face THEN _call_huggingface_api(q, mi, ac, dc, net)
        ELSE Returns(ErrorOnly(MsgNotSupported(provider)), <<>>, <<>>))

----------------------------------------------------------------------------
(* main.py and utils.py: display_summary                                   *)

ModelTypes == {"base", "instruct", "fine_tuned"}

NoDisplay == [shown |-> "none", text |-> <<>>]

\* What display_summary prints of the response: the response text when
\* response_data.get("success"), else response_data.get("error", "Unknown error").
display_summary(response_data) ==
    IF GetSuccess(response_data)
    THEN [shown |-> "response", text |-> response_data.response]
    ELSE [shown |-> "error",
          text |-> IF "error" \in DOMAIN response_data THEN response_data.error
                   ELSE <<"Unknown", "error">>]

\* main: the two lookups, then generate_response; a KeyError of a lookup
\* leaves main.
NoDescriptor == [none |-> TRUE]
NoConfig == [none |-> TRUE]
NoCli == [none |-> TRUE]

\* main: the two lookups, generate_response, display_summary.  The KeyError
\* of a lookup is caught nowhere and leaves main.
main(q, model_type, provider, env, net) ==
    IF provider \notin DOMAIN MODELS[model_type]
    THEN [call |-> Raises("KeyError", <<>>, <<>>), model_info |-> NoDescriptor,
          api_config |-> NoConfig, display |-> NoDisplay]
    ELSE LET mi == MODELS[model_type][provider]
             ac == API_CONFIG(env)[provider]
             response == generate_response(q, mi, ac, DEFAULT_CONFIG, net)
         IN [call |-> response, model_info |-> mi, api_config |-> ac,
             display |-> display_summary(response.ret)]

----------------------------------------------------------------------------
(* The environments and arguments the functions are run with.              *)

ServiceDown == <<"Connection", "error.">>

DefaultNet ==
    [openai |-> [kind |-> "raise", msg |-> ServiceDown, text |-> <<>>, total |-> 0, elapsed |-> 0],
     anthropic |-> [kind |-> "raise", msg |-> ServiceDown, text |-> <<>>, input_tokens |-> 0,
                    output_tokens |-> 0, elapsed |-> 0],
     hf |-> HTTPOutcome("raise", ServiceDown, 0, JInvalid, <<>>, 0),
     tok |-> [kind |-> "raise", n |-> 0]]

NetsOpenAI(O) == {[DefaultNet EXCEPT !.openai = o] : o \in O}
NetsAnthropic(O) == {[DefaultNet EXCEPT !.anthropic = o] : o \in O}
\* The tokenizer is reached only after a 200 answer.
NetsHF(O) ==
    {[DefaultNet EXCEPT !.hf = h] : h \in {o \in O : o.kind # "http" \/ o.status # 200}}
    \cup {[DefaultNet EXCEPT !.hf = h, !.tok = t] :
            h \in {o \in O : o.kind = "http" /\ o.status = 200}, t \in TokenizerOutcomes}

\* The environments of a call through main or generate_response: one
\* service answers, with a text of at most one character.
SampleTexts == {<<>>, <<"a">>}
SampleNets ==
    NetsOpenAI(OpenAIOutcomesOf(SampleTexts, {1}, {1}))
    \cup NetsAnthropic(AnthropicOutcomesOf(SampleTexts, {1}, {1}))
    \cup NetsHF(HTTPOutcomesOf(JBodiesOf(SampleTexts), {1}))

\* The api_config of provider key p under some environment
ConfigsOf(p) == {API_CONFIG([k \in ProviderKeys |-> e])[p] : e \in {"unset", "empty", "set"}}

AllConfigs == UNION {ConfigsOf(p) : p \in ProviderKeys}

\* The (model_type, provider) pairs MODELS has
RegistryPairs == {x \in ModelTypes \X ProviderKeys : x[2] \in DOMAIN MODELS[x[1]]}

RegistryDescriptors == {MODELS[x[1]][x[2]] : x \in RegistryPairs}

P_huggingface == <<"h", "u", "g", "g", "i", "n", "g", "f", "a", "c", "e">>
P_HUGGINGFACE == <<"H", "U", "G", "G", "I", "N", "G", "F", "A", "C", "E">>
P_ANTHROPIC == <<"A", "N", "T", "H", "R", "O", "P", "I", "C">>
P_Open_AI == <<"O", "p", "e", "n", " ", "A", "I">>
P_Cohere == <<"C", "o", "h", "e", "r", "e">>

\* Other spellings of the provider field, on the distilgpt2 descriptor
ProviderSpellings ==
    {P_huggingface, P_HUGGINGFACE, S_hugging_face, P_ANTHROPIC, S_openai, P_Open_AI,
     P_Cohere, <<>>}

DispatchDescriptors ==
    RegistryDescriptors
    \cup {Descriptor(N_distilgpt2, "base", pv, 1024) : pv \in ProviderSpellings}

ModelNames == {d.name : d \in RegistryDescriptors}

----------------------------------------------------------------------------
(* The state machine: one call at a time, from "ready" to "returned".      *)

Init ==
    /\ pc = "ready"
    /\ op = "none"
    /\ query = <<>>
    /\ model_info = NoDescriptor
    /\ api_config = NoConfig
    /\ transport = DefaultNet
    /\ result = NoResult
    /\ raised = "none"
    /\ sent = <<>>
    /\ trace = <<>>
    /\ cli = NoCli
    /\ display = NoDisplay

\* The call of function name with these arguments in environment net has
\* ended as r.
Called(name, q, mi, ac, net, r) ==
    /\ pc' = "returned"
    /\ op' = name
    /\ query' = q
    /\ model_info' = mi
    /\ api_config' = ac
    /\ transport' = net
    /\ result' = r.ret
    /\ raised' = r.raised
    /\ sent' = r.sent
    /\ trace' = r.trace

\* python main.py --query q --model-type mt --provider p
Main ==
    /\ pc = "ready"
    /\ \E q \in Queries, mt \in ModelTypes, p \in ProviderKeys, env \in Envs, net \in SampleNets :
        LET m == main(q, mt, p, env, net)
        IN /\ Called("main", q, m.model_info, m.api_config, net, m.call)
           /\ cli' = [model_type |-> mt, provider |-> p]
           /\ display' = m.display

CallGenerateResponse ==
    /\ pc = "ready"
    /\ \E q \in Queries, mi \in DispatchDescriptors, ac \in AllConfigs, net \in SampleNets :
        /\ Called("generate_response", q, mi, ac, net,
                  generate_response(q, mi, ac, DEFAULT_CONFIG, net))
        /\ UNCHANGED <<cli, display>>

CallOpenAI ==
    /\ pc = "ready"
    /\ \E q \in Queries, mi \in RegistryDescriptors, ac \in ConfigsOf("openai"),
       net \in NetsOpenAI(OpenAIOutcomes) :
        /\ Called("_call_openai_api", q, mi, ac, net,
                  _call_openai_api(q, mi, ac, DEFAULT_CONFIG, net))
        /\ UNCHANGED <<cli, display>>

CallAnthropic ==
    /\ pc = "ready"
    /\ \E q \in Queries, mi \in RegistryDescriptors, ac \in ConfigsOf("anthropic"),
       net \in NetsAnthropic(AnthropicOutcomes) :
        /\ Called("_call_anthropic_api", q, mi, ac, net,
                  _call_anthropic_api(q, mi, ac, DEFAULT_CONFIG, net))
        /\ UNCHANGED <<cli, display>>

\* The anthropic entry of API_CONFIG has no base_url.
CallHuggingFace ==
    /\ pc = "ready"
    /\ \E q \in Queries, mi \in RegistryDescriptors,
       ac \in ConfigsOf("huggingface") \cup ConfigsOf("anthropic"),
       net \in NetsHF(HTTPOutcomes) :
        /\ Called("_call_huggingface_api", q, mi, ac, net,
                  _call_huggingface_api(q, mi, ac, DEFAULT_CONFIG, net))
        /\ UNCHANGED <<cli, display>>

CallHuggingFaceHosted ==
    /\ pc = "ready"
    /\ \E q \in Queries, mi \in RegistryDescriptors,
       ac \in ConfigsOf("huggingface") \cup ConfigsOf("anthropic"),
       net \in NetsHF(HTTPOutcomes) :
        /\ Called("_call_huggingface_hosted_api", q, mi, ac, net,
                  _call_huggingface_hosted_api(q, mi, ac, DEFAULT_CONFIG, net))
        /\ UNCHANGED <<cli, display>>

CallCountTokens ==
    /\ pc = "ready"
    /\ \E text \in Texts, name \in ModelNames, tok \in TokenizerOutcomes :
        LET net == [DefaultNet EXCEPT !.tok = tok]
        IN /\ Called("count_tokens", text, [name |-> name], NoConfig, net,
                     Returns(count_tokens(text, name, tok), <<>>, <<"count_tokens">>))
           /\ UNCHANGED <<cli, display>>

\* The call is over; the next one starts from a fresh process state.
Return ==
    /\ pc = "returned"
    /\ pc' = "ready"
    /\ op' = "none"
    /\ query' = <<>>
    /\ model_info' = NoDescriptor
    /\ api_config' = NoConfig
    /\ transport' = DefaultNet
    /\ result' = NoResult
    /\ raised' = "none"
    /\ sent' = <<>>
    /\ trace' = <<>>
    /\ cli' = NoCli
    /\ display' = NoDisplay

Next ==
    \/ Main
    \/ CallGenerateResponse
    \/ CallOpenAI
    \/ CallAnthropic
    \/ CallHuggingFace
    \/ CallHuggingFaceHosted
    \/ CallCountTokens
    \/ Return

Spec == Init /\ [][Next]_vars

----------------------------------------------------------------------------
(* Properties.                                                             *)

Returned(name) == pc = "returned" /\ op = name

AdapterOps == {"_call_openai_api", "_call_anthropic_api", "_call_huggingface_api"}

\* A result that carries "error" and is not marked successful
IsFailure(r) == "error" \in DOMAIN r /\ ~GetSuccess(r)

\* A result marked successful that carries the response
IsSuccess(r) == GetSuccess(r) /\ "response" \in DOMAIN r

\* The call entered one of the three adapters.
AdapterEntered == \E i \in 1..Len(trace) : trace[i] \in AdapterOps

\* The endpoint was asked and answered with this status.
HostedAnswered(status) ==
    /\ "base_url" \in DOMAIN api_config
    /\ transport.hf.kind = "http"
    /\ transport.hf.status = status

\* The service of the adapter that ran did not answer with a usable response.
TransportFailed ==
    \/ ~GetApiKey(api_config)
    \/ op = "_call_openai_api" /\ transport.openai.kind # "ok"
    \/ op = "_call_anthropic_api" /\ transport.anthropic.kind # "ok"
    \/ op = "_call_huggingface_api" /\ ~HostedAnswered(200)

\* C1: each of the three provider adapters returns a result (a Success or a
\* Failure) and lets no exception out, whatever the query, the descriptor,
\* the API key and the answer of the SDK or endpoint are; and whenever the
\* key is missing or the transport did not answer with a response, what it
\* returns is a Failure.
C1_AdaptersNeverRaise ==
    (pc = "returned" /\ op \in AdapterOps) =>
        /\ raised = "none"
        /\ IsSuccess(result) \/ IsFailure(result)
        /\ TransportFailed => IsFailure(result)

\* An exception raised while the 200 body is handled (a list whose first
\* item is a number) comes back from the Hugging Face adapter as a Failure.
C1_Witness ==
    /\ Returned("_call_huggingface_api")
    /\ GetApiKey(api_config)
    /\ HostedAnswered(200)
    /\ transport.hf.body = JList(<<JInt>>)
    /\ raised = "none"
    /\ IsFailure(result)

\* C2: a descriptor whose provider is "Hugging Face", "huggingface" or
\* "HUGGINGFACE" is routed by generate_response to the Hugging Face adapter
\* and never gets the "not supported" Failure.
C2_ProviderSpellingsRouteAlike ==
    (Returned("generate_response")
        /\ model_info.provider \in {P_HuggingFace, P_huggingface, P_HUGGINGFACE}) =>
        /\ Len(trace) >= 2
        /\ trace[2] = "_call_huggingface_api"
        /\ result # ErrorOnly(MsgNotSupported(Lower(model_info.provider)))

\* C3: main's lookup MODELS[model_type][provider] yields, for a pair that
\* MODELS has, its descriptor, with a non-empty name and a positive
\* context_window; for a pair it lacks, main ends with a reported error:
\* no exception leaves it, an error is displayed and no descriptor is used.
C3_LookupFailsExplicitly ==
    Returned("main") =>
        IF <<cli.model_type, cli.provider>> \in RegistryPairs
        THEN /\ model_info = MODELS[cli.model_type][cli.provider]
             /\ Len(model_info.name) > 0
             /\ model_info.context_window > 0
        ELSE /\ raised = "none"
             /\ display.shown = "error"
             /\ model_info = NoDescriptor

\* round(tenths / 10), Python's round: halves go to the even neighbour
PyRound(tenths) ==
    LET fl == tenths \div 10
        rem == tenths % 10
    IN IF rem < 5 THEN fl
       ELSE IF rem > 5 THEN fl + 1
       ELSE IF fl % 2 = 0 THEN fl ELSE fl + 1

\* C4: count_tokens returns a non-negative integer for every text and never
\* raises; when the tokenizer is unavailable or fails, the value is
\* round(word_count * 1.3).
C4_CountTokensIsRoundedInteger ==
    Returned("count_tokens") =>
        /\ raised = "none"
        /\ result.tenths >= 0
        /\ result.tenths % 10 = 0
        /\ transport.tok.kind # "ok" =>
                result.tenths = 10 * PyRound(WordCount(query) * 13)

\* The message names the key.
MentionsKey(msg) == \E i \in 1..Len(msg) : msg[i] = "key"

C6_AdapterReturnsLoading ==
    (Returned("_call_huggingface_api") /\ GetApiKey(api_config) /\ HostedAnswered(503)) =>
        result = ErrorResult(MsgLoading)

\* C6: with a key configured and the endpoint answering 503, the hosted call
\* yields the "model is loading" Failure after one request and no retry, and
\* the Hugging Face adapter returns in its place the synthesized "HuggingFace
\* API unavailable" Failure, still after that one request.
C6_LoadingIsReplacedByAdapter ==
    (pc = "returned" /\ GetApiKey(api_config) /\ HostedAnswered(503)) =>
        /\ op = "_call_huggingface_hosted_api" =>
                result = ErrorResult(MsgLoading) /\ Len(sent) = 1
        /\ op = "_call_huggingface_api" =>
                result = ErrorResult(MsgHFUnavailable) /\ Len(sent) = 1

C6_Witness ==
    /\ Returned("_call_huggingface_api")
    /\ GetApiKey(api_config)
    /\ HostedAnswered(503)
    /\ result = ErrorResult(MsgHFUnavailable)
    /\ Len(sent) = 1

\* The object the text is taken from: the first item of a list, else the body
TextSource(body) ==
    IF body.t = "list" /\ Len(body.items) > 0 THEN body.items[1] ELSE body

HasKey(v, k) == v.t = "dict" /\ In(k, v)

\* C7: on 200 the hosted call returns a Success for every parsed body, and
\* the text is chosen by one precedence for a list's first object and for a
\* single object: without "generated_text", the value under "text" if there
\* is one, else the string form of the object.
C7_EveryParsedBodySucceeds ==
    (Returned("_call_huggingface_hosted_api") /\ HostedAnswered(200)
        /\ transport.hf.body.t # "invalid") =>
        /\ IsSuccess(result)
        /\ LET src == TextSource(transport.hf.body)
           IN ~HasKey(src, S_generated_text) =>
                result.response = IF HasKey(src, S_text) THEN Get(src, S_text).s
                                  ELSE PyStr(src)

\* The text the hosted call took from the body, before the query is removed
ExtractedText(body) ==
    LET src == TextSource(body)
    IN IF HasKey(src, S_generated_text) THEN Get(src, S_generated_text).s
       ELSE IF body.t = "list" /\ HasKey(src, S_text) THEN Get(src, S_text).s
       ELSE PyStr(src)

\* C8: on 200, whichever key or rendering the text was taken from: a text
\* that begins with the query is returned without that prefix (and trimmed,
\* as in "Hello world" -> "world"), any other text is returned unmodified.
C8_QueryPrefixRemovedFromAnyText ==
    (Returned("_call_huggingface_hosted_api") /\ HostedAnswered(200) /\ IsSuccess(result)) =>
        LET ext == ExtractedText(transport.hf.body)
        IN IF StartsWith(ext, query)
           THEN result.response \in {DropPrefix(ext, Len(query)),
                                     Strip(DropPrefix(ext, Len(query)))}
           ELSE result.response = ext

\* C9: every Failure that generate_response or an adapter returns carries a
\* non-empty message.
C9_FailureMessageNonEmpty ==
    (pc = "returned" /\ op \in AdapterOps \cup {"generate_response", "main"}
        /\ raised = "none" /\ IsFailure(result)) =>
        Len(result.error) > 0

\* provider.lower() with the spaces removed
Normalized(provider) == SelectSeq(Lower(provider), LAMBDA c : c # " ")

KnownProvider(provider) == Normalized(provider) \in {S_openai, S_anthropic, P_huggingface}

\* C10: for a descriptor whose provider is none of the three known ones,
\* generate_response returns the "Provider ... not supported" Failure,
\* enters no adapter and makes no request.
C10_UnknownProviderNotSupported ==
    (Returned("generate_response") /\ ~KnownProvider(model_info.provider)) =>
        /\ raised = "none"
        /\ result = ErrorOnly(MsgNotSupported(Lower(model_info.provider)))
        /\ trace = <<"generate_response">>
        /\ sent = <<>>

\* "Cohere", with a key configured and an endpoint that would have answered
C10_Witness ==
    /\ Returned("generate_response")
    /\ model_info.provider = P_Cohere
    /\ GetApiKey(api_config)
    /\ HostedAnswered(200)
    /\ IsFailure(result)
    /\ trace = <<"generate_response">>
    /\ sent = <<>>

\* The adapter that belongs to a provider key of the registry
AdapterOf(p) ==
    IF p = "openai" THEN "_call_openai_api"
    ELSE IF p = "anthropic" THEN "_call_anthropic_api"
    ELSE "_call_huggingface_api"

\* C11: for every (model_type, provider) pair that MODELS has, main looks up
\* that pair's descriptor and that provider's own API_CONFIG entry, and
\* generate_response enters the adapter of the chosen provider key and no
\* other adapter; every request made goes to that provider; no exception
\* leaves main and the result is never the "not supported" Failure.
C11_RegistryAndDispatcherAgree ==
    (Returned("main") /\ <<cli.model_type, cli.provider>> \in RegistryPairs) =>
        /\ raised = "none"
        /\ model_info = MODELS[cli.model_type][cli.provider]
        /\ api_config \in ConfigsOf(cli.provider)
        /\ Len(trace) >= 2
        /\ trace[1] = "generate_response"
        /\ trace[2] = AdapterOf(cli.provider)
        /\ \A i \in 1..Len(trace) : trace[i] \in AdapterOps => trace[i] = AdapterOf(cli.provider)
        /\ \A i \in 1..Len(sent) : sent[i].to = cli.provider
        /\ result # ErrorOnly(MsgNotSupported(Lower(model_info.provider)))

\* main with the registry key "huggingface" and its key set reaches the
\* Hugging Face adapter, which asks the endpoint once and succeeds.
C11_Witness ==
    /\ Returned("main")
    /\ cli.provider = "huggingface"
    /\ api_config.api_key = EnvValue("huggingface")
    /\ trace = <<"generate_response", "_call_huggingface_api", "_call_huggingface_hosted_api">>
    /\ Len(sent) = 1
    /\ IsSuccess(result)
    /\ display.shown = "response"

====
